---- MODULE Spec2Model ----
(***************************************************************************)
(* The structural filtering pipeline of eu-network-graph: api/bip.py       *)
(* (degree filter, bipartite k-core, weight filter, D3 builder) and        *)
(* server.py (build_graph).                                                *)
(*                                                                         *)
(* A pandas DataFrame is a record [columns, rows]: columns is the set of   *)
(* column names, rows the sequence of row records over those columns.      *)
(* The specifications share the operators translated from the code:        *)
(*   Spec        one request to get_graph: a parameter that does not       *)
(*               parse, or a run of build_graph from the loaded tables to  *)
(*               the returned graph or the error payload;                  *)
(*   SpecFilter  filter_bipartite_by_degree and then bipartite_k_core_prune*)
(*               (its loop one round per step) on arbitrary edge rows;     *)
(*   SpecFilterFair  SpecFilter with the loop run on to its end;           *)
(*   SpecWeight  filter_edges_by_weight on raw rows and on an aggregated   *)
(*               table;                                                    *)
(*   SpecLabel   build_d3_bipartite on arbitrary node tables.              *)
(***************************************************************************)
EXTENDS Integers, Sequences, FiniteSets, TLC

VARIABLES
    pc,             \* position in build_graph, or in the function under call
    meetings,       \* meetings_df    (server.py:52)
    commission,     \* commission_df  (server.py:53)
    orgs,           \* orgs_df        (server.py:51)
    nodes,          \* build_graph's nodes frame
    edges,          \* build_graph's edges frame (reassigned by each filter)
    ts_col,         \* build_graph's ts_col: "timestamp" or None
    edges_agg,      \* build_graph's edges_agg
    graph,          \* build_graph's graph: [nodes, links], or get_graph's error payload
    arg,            \* the arguments read so far
    inp,            \* the frame the function under call (in Spec: the degree filter) was given
    out,            \* the frame it returned
    df,             \* bipartite_k_core_prune's df
    changed,        \* bipartite_k_core_prune's changed
    it              \* bipartite_k_core_prune's it

vars == <<pc, meetings, commission, orgs, nodes, edges, ts_col, edges_agg,
          graph, arg, inp, out, df, changed, it>>

\* ---------------------------------------------------------------- bounds
MaxRows == 4        \* edge rows given to the two structural filters
MaxThreshold == 3   \* largest org_min_degree / actor_min_degree / k tried on them
MaxWeightRows == 3  \* rows given to filter_edges_by_weight
MaxMinWeight == 3   \* largest min_weight
MaxMeetings == 2    \* rows of the meetings table
MaxCommission == 1  \* rows of the commission table
MaxOrgs == 2        \* rows of the organisations master table
MaxArg == 2         \* largest degree threshold and k build_graph is called with
MaxNodes == 1       \* rows of a node table given to build_d3_bipartite directly

\* ------------------------------------------------------------ primitives
None == "<None>"    \* Python None
NaN == "<NaN>"      \* float nan / NaT

\* str(x) for the identifiers of the model. A table read from JSON or CSV
\* holds integer ids; the integer n is written "int:n" here (a column of the
\* model holds strings only) and prints as its decimal digits, a string stays
\* itself.
Str(x) ==
    CASE x = "int:1" -> "1"
      [] x = "int:2" -> "2"
      [] x = "int:3" -> "3"
      [] x = NaN -> "nan"
      [] x = None -> "None"
      [] OTHER -> x

EmptyFrame == [columns |-> {}, rows |-> <<>>]

\* df[col] = df[col].astype(str)
AstypeStr(frame, col) ==
    [frame EXCEPT !.rows =
        [i \in DOMAIN frame.rows |-> [frame.rows[i] EXCEPT ![col] = Str(@)]]]

\* df[col].value_counts()[v]: the number of rows whose col is v
ValueCount(rows, col, v) == Cardinality({i \in DOMAIN rows : rows[i][col] = v})

\* df[df[col].isin(keep)]
RowsIsin(frame, col, keep) ==
    LET Keep(r) == r[col] \in keep
    IN  [frame EXCEPT !.rows = SelectSeq(frame.rows, Keep)]

ColumnValues(rows, col) == {rows[i][col] : i \in DOMAIN rows}

\* The plausible slip: == for >= in the threshold test.
KeepExactly(rows, col, m) ==
    {v \in ColumnValues(rows, col) : ValueCount(rows, col, v) = m}

\* set(deg[deg >= m].index) for deg = df[col].value_counts()
KeepAtLeast(rows, col, m) ==
    {v \in ColumnValues(rows, col) : ValueCount(rows, col, v) >= m}

\* ------------------------------------------- filter_bipartite_by_degree
\* The plausible slip: the actor degree counted on the input rows instead of
\* the rows left by the organisation pass.
filter_bipartite_by_degree_stale(edges_, org_min_degree, actor_min_degree) ==
    LET df0 == AstypeStr(AstypeStr(edges_, "source"), "target")
        df1 == IF org_min_degree > 1
               THEN RowsIsin(df0, "target", KeepAtLeast(df0.rows, "target", org_min_degree))
               ELSE df0
    IN  IF actor_min_degree > 1
        THEN RowsIsin(df1, "source", KeepAtLeast(df0.rows, "source", actor_min_degree))
        ELSE df1

\* The plausible slip: repeated rows dropped before the degrees are counted.
filter_bipartite_by_degree_dedup(edges_, org_min_degree, actor_min_degree) ==
    LET df0 == AstypeStr(AstypeStr(edges_, "source"), "target")
        First(i) == \A j \in 1..(i - 1) : df0.rows[j] # df0.rows[i]
        firsts == SelectSeq([i \in DOMAIN df0.rows |-> i], First)
        df00 == [df0 EXCEPT !.rows = [n \in DOMAIN firsts |-> df0.rows[firsts[n]]]]
        df1 == IF org_min_degree > 1
               THEN RowsIsin(df00, "target", KeepAtLeast(df00.rows, "target", org_min_degree))
               ELSE df00
    IN  IF actor_min_degree > 1
        THEN RowsIsin(df1, "source", KeepAtLeast(df1.rows, "source", actor_min_degree))
        ELSE df1

filter_bipartite_by_degree(edges_, org_min_degree, actor_min_degree) ==
    LET df0 == AstypeStr(AstypeStr(edges_, "source"), "target")
        df1 == IF org_min_degree > 1
               THEN RowsIsin(df0, "target", KeepAtLeast(df0.rows, "target", org_min_degree))
               ELSE df0
    IN  IF actor_min_degree > 1
        THEN RowsIsin(df1, "source", KeepAtLeast(df1.rows, "source", actor_min_degree))
        ELSE df1

\* ----------------------------------------------- bipartite_k_core_prune
\* The plausible slip: the organisation degrees counted after the actors
\* below k are gone, instead of both degrees on the same rows.
KCoreRoundActorsFirst(frame, k) ==
    LET actors_kept == RowsIsin(frame, "source", KeepAtLeast(frame.rows, "source", k))
    IN  RowsIsin(actors_kept, "target", KeepAtLeast(actors_kept.rows, "target", k))

\* new_df of one round of the loop (bip.py:245-251)
KCoreRound(frame, k) ==
    LET keep_actors == KeepAtLeast(frame.rows, "source", k)
        keep_orgs == KeepAtLeast(frame.rows, "target", k)
        Keep(r) == r.source \in keep_actors /\ r.target \in keep_orgs
    IN  [frame EXCEPT !.rows = SelectSeq(frame.rows, Keep)]

\* The plausible slip: the round never reports a change, so the loop makes a
\* single pass.
KCoreStepOnce(frame, k) ==
    [df |-> KCoreRound(frame, k), changed |-> FALSE]

\* One iteration of the while loop: the new df and changed (bip.py:242-255)
KCoreStep(frame, k) ==
    LET new_df == KCoreRound(frame, k)
    IN  IF Len(new_df.rows) # Len(frame.rows)
        THEN [df |-> new_df, changed |-> TRUE]
        ELSE [df |-> frame, changed |-> FALSE]

\* while changed and len(df)
LoopContinues(frame, changed_) == changed_ /\ Len(frame.rows) > 0

RECURSIVE KCoreLoop(_, _, _)
KCoreLoop(frame, changed_, k) ==
    IF LoopContinues(frame, changed_)
    THEN LET s == KCoreStep(frame, k) IN KCoreLoop(s.df, s.changed, k)
    ELSE frame

bipartite_k_core_prune(edges_, k) ==
    IF k <= 1 THEN edges_
    ELSE KCoreLoop(AstypeStr(AstypeStr(edges_, "source"), "target"), TRUE, k)

\* ------------------------------------------------------------ SpecFilter
EdgeIds == {"int:1", "int:2"}
EdgeRow == [source : EdgeIds, target : EdgeIds]
EdgeFrames ==
    {[columns |-> {"source", "target"}, rows |-> r] :
        r \in UNION {[1..n -> EdgeRow] : n \in 0..MaxRows}}

NoArg == [fn |-> "none"]

Idle ==
    /\ meetings = EmptyFrame /\ commission = EmptyFrame /\ orgs = EmptyFrame
    /\ nodes = EmptyFrame /\ edges = EmptyFrame /\ ts_col = None
    /\ edges_agg = EmptyFrame /\ graph = None

InitFilter ==
    /\ pc = "call_degree"
    /\ Idle
    /\ arg = NoArg
    /\ inp \in EdgeFrames
    /\ out = EmptyFrame
    /\ df = EmptyFrame /\ changed = FALSE /\ it = 0

Pipeline == <<meetings, commission, orgs, nodes, edges, ts_col, edges_agg, graph>>

\* filter_bipartite_by_degree(inp, org_min_degree, actor_min_degree)
CallDegreeFilter ==
    /\ pc = "call_degree"
    /\ \E om \in 0..MaxThreshold, am \in 0..MaxThreshold :
        /\ arg' = [fn |-> "filter_bipartite_by_degree",
                   org_min_degree |-> om, actor_min_degree |-> am]
        /\ out' = filter_bipartite_by_degree(inp, om, am)
    /\ pc' = "call_prune"
    /\ UNCHANGED <<Pipeline, inp, df, changed, it>>

\* bipartite_k_core_prune(edges, k) up to the loop (bip.py:228-240), called
\* on the rows the degree filter returned
PruneEnter ==
    /\ pc = "call_prune"
    /\ inp' = out
    /\ \E k \in 0..MaxThreshold :
        /\ arg' = [fn |-> "bipartite_k_core_prune", k |-> k]
        /\ IF k <= 1
           THEN /\ pc' = "pruned"
                /\ UNCHANGED <<out, df, changed, it>>
           ELSE /\ pc' = "loop"
                /\ df' = AstypeStr(AstypeStr(out, "source"), "target")
                /\ changed' = TRUE
                /\ it' = 0
                /\ UNCHANGED out
    /\ UNCHANGED Pipeline

\* one round of the while loop (bip.py:241-258)
PruneIter ==
    /\ pc = "loop"
    /\ LoopContinues(df, changed)
    /\ it' = it + 1
    /\ LET s == KCoreStep(df, arg.k)
       IN  df' = s.df /\ changed' = s.changed
    /\ UNCHANGED <<Pipeline, pc, arg, inp, out>>

\* the loop's exit and the return (bip.py:241, 264)
PruneExit ==
    /\ pc = "loop"
    /\ ~LoopContinues(df, changed)
    /\ out' = df
    /\ pc' = "pruned"
    /\ UNCHANGED <<Pipeline, arg, inp, df, changed, it>>

NextFilter == CallDegreeFilter \/ PruneEnter \/ PruneIter \/ PruneExit

SpecFilter == InitFilter /\ [][NextFilter]_vars

\* ------------------------------------------------- claims on SpecFilter
DegreeFilterReturned ==
    pc = "call_prune" /\ arg.fn = "filter_bipartite_by_degree"

\* the rows of frame whose column col prints as v
StrCount(rows, col, v) ==
    Cardinality({i \in DOMAIN rows : Str(rows[i][col]) = v})

\* C1 as stated: on the rows filter_bipartite_by_degree returns, every
\* organisation that still appears has at least org_min_degree rows and every
\* actor that still appears has at least actor_min_degree rows.
C1_DegreesOnReturnedRows ==
    DegreeFilterReturned =>
        \A i \in DOMAIN out.rows :
            /\ ValueCount(out.rows, "target", out.rows[i].target) >= arg.org_min_degree
            /\ ValueCount(out.rows, "source", out.rows[i].source) >= arg.actor_min_degree

\* C1 amended: on the returned rows every actor that still appears has at
\* least actor_min_degree rows; every organisation that still appears has at
\* least org_min_degree rows in the input, and in the returned rows too when
\* the actor pass is off (actor_min_degree <= 1).
C1_DegreesAfterOnePass ==
    DegreeFilterReturned =>
        \A i \in DOMAIN out.rows :
            /\ ValueCount(out.rows, "source", out.rows[i].source) >= arg.actor_min_degree
            /\ StrCount(inp.rows, "target", out.rows[i].target) >= arg.org_min_degree
            /\ arg.actor_min_degree <= 1 =>
                 ValueCount(out.rows, "target", out.rows[i].target) >= arg.org_min_degree

\* both passes ran, removed rows and left some
C1_Witness ==
    /\ DegreeFilterReturned
    /\ arg.org_min_degree >= 2 /\ arg.actor_min_degree >= 2
    /\ Len(out.rows) > 0
    /\ Len(out.rows) < Len(inp.rows)

PruneReturned == pc = "pruned" /\ arg.fn = "bipartite_k_core_prune"

\* C2: for k >= 2 the rows bipartite_k_core_prune returns are a fixed point of
\* the pruning round: keeping only the rows whose two endpoints have degree
\* >= k on those rows gives the same rows again.
C2_PruneIsFixedPoint ==
    (PruneReturned /\ arg.k >= 2) => KCoreRound(out, arg.k) = out

\* a prune of at least two changing rounds that leaves a non-empty core
C2_Witness ==
    /\ PruneReturned /\ arg.k >= 2
    /\ it >= 3
    /\ Len(out.rows) > 0

\* C3: the row count of bipartite_k_core_prune(E, k) never grows with k, the
\* disabled values 0 and 1 included: the call just made with k returned no
\* more rows than any smaller k gives on the same input and no fewer than any
\* larger k gives, and the same holds between any two thresholds.
C3_PruneMonotoneInK ==
    PruneReturned =>
        /\ \A k2 \in 0..MaxThreshold :
            /\ k2 >= arg.k =>
                 Len(bipartite_k_core_prune(inp, k2).rows) <= Len(out.rows)
            /\ k2 <= arg.k =>
                 Len(out.rows) <= Len(bipartite_k_core_prune(inp, k2).rows)
        /\ \A k1 \in 0..MaxThreshold, k2 \in 0..MaxThreshold :
            k1 <= k2 =>
                Len(bipartite_k_core_prune(inp, k2).rows)
                    <= Len(bipartite_k_core_prune(inp, k1).rows)

\* the call left a non-empty core, a smaller k keeps strictly more rows and a
\* larger k strictly fewer
C3_Witness ==
    /\ PruneReturned /\ arg.k = 2
    /\ Len(out.rows) > 0
    /\ Len(out.rows) < Len(bipartite_k_core_prune(inp, 1).rows)
    /\ Len(bipartite_k_core_prune(inp, 3).rows) < Len(out.rows)

\* the interpreter runs the loop on: a round that can be taken is taken, and
\* the return follows the failed loop test
SpecFilterFair ==
    SpecFilter /\ WF_vars(PruneIter) /\ WF_vars(PruneExit)

InPruneLoop == pc = "loop" /\ arg.fn = "bipartite_k_core_prune"

\* the rows of a frame as a set
RowSet(frame) == {frame.rows[i] : i \in DOMAIN frame.rows}

\* what one round of the loop may do to df, changed and it
RoundShrinksOrHolds ==
    (InPruneLoop /\ it' # it) =>
        /\ it' = it + 1
        /\ LET Stays(r) == r \in RowSet(df')
           IN  df'.rows = SelectSeq(df.rows, Stays)
        /\ Len(df'.rows) <= Len(df.rows)
        /\ changed' <=> (Len(df'.rows) < Len(df.rows))
        /\ changed' <=> (df' # df)

\* the rounds run so far are within the bound, and the loop was left only on
\* a round that changed nothing or on an empty row set
RoundsBounded ==
    /\ (InPruneLoop \/ (PruneReturned /\ arg.k >= 2)) => it <= Len(inp.rows) + 1
    /\ (PruneReturned /\ arg.k >= 2) => (~changed \/ Len(out.rows) = 0)

\* C11: for k >= 2 the loop of bipartite_k_core_prune terminates; a round
\* leaves the rows as they are or removes at least one of them (and removes
\* one exactly when it reports a change), at most |E| + 1 rounds run, and the
\* loop ends on a round that changed nothing or on an empty row set.
C11_PruneLoopTerminates ==
    /\ []RoundsBounded
    /\ [][RoundShrinksOrHolds]_vars
    /\ (InPruneLoop ~> PruneReturned)

\* the loop ended on an empty row set after two changing rounds
C11_Witness ==
    /\ PruneReturned /\ arg.k >= 2
    /\ it = 2 /\ changed
    /\ Len(inp.rows) >= 3 /\ Len(out.rows) = 0

\* the example: actors a1 = "1", a2 = "2", organisations o1 = "1", o2 = "2"
ExampleRows ==
    {[source |-> "1", target |-> "1"], [source |-> "1", target |-> "2"],
     [source |-> "2", target |-> "1"]}

\* the 2-core pruner is running, or has run, on the three rows of the example
OnExample ==
    /\ pc \in {"loop", "pruned"} /\ arg.fn = "bipartite_k_core_prune" /\ arg.k = 2
    /\ Len(inp.rows) = 3 /\ RowSet(inp) = ExampleRows

\* C13 as stated: on the example the 2-core takes three changing rounds, with
\* {(a1,o1),(a1,o2)} after round 1, {(a1,o1)} after round 2 and no rows after
\* round 3, and returns no rows.
C13_ThreeRounds ==
    OnExample =>
        /\ it = 1 => RowSet(df) = {[source |-> "1", target |-> "1"],
                                   [source |-> "1", target |-> "2"]}
        /\ it = 2 => RowSet(df) = {[source |-> "1", target |-> "1"]}
        /\ it = 3 => RowSet(df) = {}
        /\ pc = "pruned" => (it = 3 /\ changed /\ Len(out.rows) = 0)

\* C13 amended: on the example the 2-core takes two changing rounds: round 1
\* removes a2 and o2 together (both degrees are counted on the same rows) and
\* leaves {(a1,o1)}, round 2 leaves no rows, and the pruner returns no rows.
C13_TwoRounds ==
    OnExample =>
        /\ it = 0 => RowSet(df) = ExampleRows
        /\ it = 1 => (df.rows = <<[source |-> "1", target |-> "1"]>> /\ changed)
        /\ it = 2 => (df.rows = <<>> /\ changed)
        /\ it <= 2
        /\ pc = "pruned" => (it = 2 /\ Len(out.rows) = 0)

\* the pruner returned on the example
C13_Witness ==
    OnExample /\ pc = "pruned" /\ it = 2 /\ out.rows = <<>>

\* the input rows, ids printed, whose organisation has at least m rows in the
\* input
AfterOrgThreshold(input, m) ==
    LET printed == AstypeStr(AstypeStr(input, "source"), "target").rows
        Enough(r) == Cardinality({i \in DOMAIN printed : printed[i].target = r.target}) >= m
    IN  SelectSeq(printed, Enough)

\* of those rows, the ones whose actor has at least m rows among them
AfterActorThreshold(remaining, m) ==
    LET Enough(r) == Cardinality({i \in DOMAIN remaining : remaining[i].source = r.source}) >= m
    IN  SelectSeq(remaining, Enough)

\* C14: filter_bipartite_by_degree returns the input rows less the rows of
\* every organisation with fewer than org_min_degree rows in the input, less
\* the rows of every actor with fewer than actor_min_degree rows among the
\* rows that are left (not among the input rows); nothing is re-checked.
C14_OrgThenActor ==
    DegreeFilterReturned =>
        out.rows = AfterActorThreshold(AfterOrgThreshold(inp, arg.org_min_degree),
                                       arg.actor_min_degree)

\* an actor with enough rows in the input lost its rows because the
\* organisation pass took some of them first, and an organisation kept is
\* left below org_min_degree
C14_Witness ==
    /\ DegreeFilterReturned
    /\ arg.org_min_degree >= 2 /\ arg.actor_min_degree >= 2
    /\ \E i \in DOMAIN inp.rows :
          /\ StrCount(inp.rows, "source", Str(inp.rows[i].source)) >= arg.actor_min_degree
          /\ StrCount(inp.rows, "target", Str(inp.rows[i].target)) >= arg.org_min_degree
          /\ \A j \in DOMAIN out.rows : out.rows[j].source # Str(inp.rows[i].source)
    /\ \E j \in DOMAIN out.rows :
          ValueCount(out.rows, "target", out.rows[j].target) < arg.org_min_degree

\* the degree filter returned from a call with the same threshold k >= 2 on
\* both sides
SameThresholdReturned ==
    /\ DegreeFilterReturned
    /\ arg.org_min_degree = arg.actor_min_degree
    /\ arg.org_min_degree >= 2

\* C15: for k >= 2, pruning the rows the degree filter returned for
\* thresholds (k, k) gives the rows pruning the input alone gives, and those
\* rows are among the rows the filter returned.
C15_PruneSubsumesFilter ==
    SameThresholdReturned =>
        LET k == arg.org_min_degree
            both == bipartite_k_core_prune(out, k)
            alone == bipartite_k_core_prune(inp, k)
            InCore(r) == r \in RowSet(both)
        IN  /\ both = alone
            /\ both.rows = SelectSeq(out.rows, InCore)

\* the filter removed rows, the pruner removes more of them and a core is left
C15_Witness ==
    /\ SameThresholdReturned
    /\ Len(out.rows) < Len(inp.rows)
    /\ Len(bipartite_k_core_prune(out, arg.org_min_degree).rows) < Len(out.rows)
    /\ Len(bipartite_k_core_prune(inp, arg.org_min_degree).rows) > 0

\* the rows of a frame at the positions S
RowsAt(frame, S) == {frame.rows[i] : i \in S}

\* in the sub-collection of the rows at positions S every actor and every
\* organisation that appears has at least k of those rows
EveryDegreeAtLeast(frame, S, k) ==
    \A i \in S :
        /\ Cardinality({j \in S : frame.rows[j].source = frame.rows[i].source}) >= k
        /\ Cardinality({j \in S : frame.rows[j].target = frame.rows[i].target}) >= k

\* the positions of the k-core: the union of all such sub-collections
CorePositions(frame, k) ==
    UNION {S \in SUBSET DOMAIN frame.rows : EveryDegreeAtLeast(frame, S, k)}

\* C16: for k >= 2 bipartite_k_core_prune returns exactly the rows of the
\* largest sub-collection of its input in which every actor and organisation
\* that appears has at least k rows (the union of all such sub-collections),
\* in input order; it returns no rows exactly when the only such
\* sub-collection is the empty one.
C16_PruneIsMaximalCore ==
    (PruneReturned /\ arg.k >= 2) =>
        LET core == CorePositions(inp, arg.k)
            InCore(i) == i \in core
            positions == SelectSeq([i \in DOMAIN inp.rows |-> i], InCore)
        IN  /\ EveryDegreeAtLeast(inp, core, arg.k)
            /\ out.rows = [n \in DOMAIN positions |-> inp.rows[positions[n]]]
            /\ (out.rows = <<>>) <=>
                 (\A S \in SUBSET DOMAIN inp.rows :
                     EveryDegreeAtLeast(inp, S, arg.k) => S = {})

\* the core is neither empty nor the whole input, and it took the loop more
\* than one changing round to reach it
C16_Witness ==
    /\ PruneReturned /\ arg.k >= 2
    /\ CorePositions(inp, arg.k) # {}
    /\ CorePositions(inp, arg.k) # DOMAIN inp.rows
    /\ Len(out.rows) + 2 <= Len(inp.rows)
    /\ it >= 3

\* ------------------------------------------------ coerce_timestamp_series
\* pd.to_datetime(errors="coerce", utc=True), strftime("%Y-%m-%dT%H:%M:%SZ"),
\* fillna(""): a date that parses is written in the ISO form, a value that
\* does not parse (or a missing one) becomes "".
CoerceTimestamp(x) ==
    CASE x = "2024-03-01" -> "2024-03-01T00:00:00Z"
      [] x = "2024-03-02 10:30" -> "2024-03-02T10:30:00Z"
      [] x = "2024-03-01T00:00:00Z" -> "2024-03-01T00:00:00Z"
      [] x = "2024-03-02T10:30:00Z" -> "2024-03-02T10:30:00Z"
      [] OTHER -> ""

\* ------------------------------------------- groupby(["source","target"])
\* groupby sorts its keys; the identifiers of the model in str order
IdOrder == <<"", "1", "2", "3", "None", "Ursula", "nan">>

\* the (source, target) keys in sorted order
SortedPairs ==
    LET n == Len(IdOrder)
    IN  [i \in 1..(n * n) |-> <<IdOrder[((i - 1) \div n) + 1], IdOrder[((i - 1) % n) + 1]>>]

\* the rows of one group, in frame order
GroupRows(rows, s, t) ==
    LET In(r) == r.source = s /\ r.target = t
    IN  SelectSeq(rows, In)

\* the keys of the groups: the pairs that occur, sorted
GroupKeys(rows) ==
    LET Occurs(p) == \E i \in DOMAIN rows : rows[i].source = p[1] /\ rows[i].target = p[2]
    IN  SelectSeq(SortedPairs, Occurs)

\* [t for t in x.tolist() if t]
NonEmpty(ts) ==
    LET Truthy(t) == t # ""
    IN  SelectSeq(ts, Truthy)

AggColumns == {"source", "target", "weight", "timestamps"}

\* The plausible slip: weight counts the rows with a timestamp ("count") in
\* place of every row ("size").
AggregateCounting(frame, col) ==
    LET keys == GroupKeys(frame.rows)
        TsOf(g) == [i \in DOMAIN g |-> IF col = None THEN "" ELSE g[i][col]]
    IN  [columns |-> AggColumns,
         rows |-> [i \in DOMAIN keys |->
            LET g == GroupRows(frame.rows, keys[i][1], keys[i][2])
            IN  [source |-> keys[i][1], target |-> keys[i][2],
                 weight |-> Len(NonEmpty(TsOf(g))),
                 timestamps |-> NonEmpty(TsOf(g))]]]

\* The aggregation filter_edges_by_weight (bip.py:284-295) and
\* build_d3_bipartite (bip.py:340-351) both write out: one row per pair,
\* weight the size of the group, timestamps the non-empty values of the
\* coerced column col, or [] for every pair when col is None.
Aggregate(frame, col) ==
    LET keys == GroupKeys(frame.rows)
    IN  [columns |-> AggColumns,
         rows |-> [i \in DOMAIN keys |->
            LET g == GroupRows(frame.rows, keys[i][1], keys[i][2])
            IN  [source |-> keys[i][1], target |-> keys[i][2],
                 weight |-> Len(g),
                 timestamps |->
                    IF col = None THEN <<>>
                    ELSE NonEmpty([j \in DOMAIN g |-> g[j][col]])]]]

\* df[col2] = coerce_timestamp_series(df[col])
WithCoerced(frame, col, col2) ==
    [columns |-> frame.columns \cup {col2},
     rows |-> [i \in DOMAIN frame.rows |->
        LET r == frame.rows[i]
        IN  [c \in (DOMAIN r) \cup {col2} |->
                IF c = col2 THEN CoerceTimestamp(r[col]) ELSE r[c]]]]

\* ------------------------------------------------- filter_edges_by_weight
filter_edges_by_weight(edges_, min_weight, ts_col_) ==
    IF min_weight <= 1 THEN edges_
    ELSE LET d0 == AstypeStr(AstypeStr(edges_, "source"), "target")
             agg == IF ts_col_ # None /\ ts_col_ \in d0.columns
                    THEN Aggregate(WithCoerced(d0, ts_col_, "_ts"), "_ts")
                    ELSE Aggregate(d0, None)
             Heavy(r) == r.weight >= min_weight
         IN  [agg EXCEPT !.rows = SelectSeq(agg.rows, Heavy)]

\* ------------------------------------------------------------ SpecWeight

WeightIds == {"int:1", "2"}

\* raw edge rows, with and without a timestamp column
RawFrames ==
    {[columns |-> {"source", "target", "timestamp"}, rows |-> r] :
        r \in UNION {[1..n -> [source : WeightIds, target : {"1", "2"},
                               timestamp : {"2024-03-01", "junk"}]] :
                        n \in 0..MaxWeightRows}}
    \cup
    {[columns |-> {"source", "target"}, rows |-> r] :
        r \in UNION {[1..n -> [source : WeightIds, target : {"1", "2"}]] :
                        n \in 0..MaxWeightRows}}

\* aggregated tables: one row per pair, carrying weight and timestamps
AggRow ==
    [source : {"1", "2"}, target : {"1"}, weight : 1..MaxMinWeight,
     timestamps : {<<>>, <<"2024-03-01T00:00:00Z">>,
                   <<"2024-03-01T00:00:00Z", "2024-03-02T10:30:00Z">>}]
AggFrames ==
    {[columns |-> AggColumns, rows |-> r] :
        r \in {q \in UNION {[1..n -> AggRow] : n \in 0..2} :
                \A i \in DOMAIN q, j \in DOMAIN q :
                    i < j => q[i].source # q[j].source}}

InitWeight ==
    /\ pc = "weight"
    /\ meetings = EmptyFrame /\ commission = EmptyFrame /\ orgs = EmptyFrame
    /\ nodes = EmptyFrame
    /\ edges \in RawFrames \cup AggFrames
    /\ ts_col \in {"timestamp", None}
    /\ edges_agg = EmptyFrame /\ graph = None
    /\ arg = NoArg
    /\ inp = EmptyFrame /\ out = EmptyFrame
    /\ df = EmptyFrame /\ changed = FALSE /\ it = 0

\* edges_agg = filter_edges_by_weight(edges, min_weight=min_edge_weight,
\*                                    ts_col=ts_col)   (server.py:168-173)
WeightFilter ==
    /\ pc = "weight"
    /\ \E mw \in 1..MaxMinWeight :
        /\ arg' = [fn |-> "filter_edges_by_weight", min_edge_weight |-> mw]
        /\ edges_agg' = filter_edges_by_weight(edges, mw, ts_col)
    /\ pc' = "d3"
    /\ UNCHANGED <<meetings, commission, orgs, nodes, edges, ts_col, graph,
                   inp, out, df, changed, it>>

SpecWeight == InitWeight /\ [][WeightFilter]_vars

\* ------------------------------------------------- claims on SpecWeight
RECURSIVE SumWeights(_)
SumWeights(rows) ==
    IF rows = <<>> THEN 0 ELSE Head(rows).weight + SumWeights(Tail(rows))

IsAggregated(frame) == {"weight", "timestamps"} \subseteq frame.columns

WeightFilterReturned == pc = "d3" /\ arg.fn = "filter_edges_by_weight"

\* the number of rows of the pair (s, t), identifiers compared as printed
PairCount(rows, s, t) ==
    Cardinality({i \in DOMAIN rows : Str(rows[i].source) = s /\ Str(rows[i].target) = t})

\* the pairs of the input that the returned table no longer has
DiscardedPairs(input, returned) ==
    {p \in {<<Str(input.rows[i].source), Str(input.rows[i].target)>> : i \in DOMAIN input.rows} :
        \A j \in DOMAIN returned.rows :
            <<Str(returned.rows[j].source), Str(returned.rows[j].target)>> # p}

RECURSIVE SumPairCounts(_, _)
SumPairCounts(rows, pairs) ==
    IF pairs = {} THEN 0
    ELSE LET p == CHOOSE q \in pairs : TRUE
         IN  PairCount(rows, p[1], p[2]) + SumPairCounts(rows, pairs \ {p})

\* C4: on raw rows, every edge filter_edges_by_weight keeps has weight >=
\* min_weight, and the weights of the discarded edges (their record counts)
\* add up to the number of input rows minus the weights of the kept edges.
\* With min_weight <= 1 the rows come back as they are, each one record.
C4_WeightFilterInvariant ==
    (WeightFilterReturned /\ ~IsAggregated(edges)) =>
        LET kept == IF IsAggregated(edges_agg) THEN SumWeights(edges_agg.rows)
                    ELSE Len(edges_agg.rows)
        IN  /\ IsAggregated(edges_agg) =>
                \A i \in DOMAIN edges_agg.rows :
                    /\ edges_agg.rows[i].weight >= arg.min_edge_weight
                    /\ edges_agg.rows[i].weight =
                         PairCount(edges.rows, edges_agg.rows[i].source, edges_agg.rows[i].target)
            /\ ~IsAggregated(edges_agg) => arg.min_edge_weight <= 1
            /\ SumPairCounts(edges.rows, DiscardedPairs(edges, edges_agg))
                 = Len(edges.rows) - kept

\* some edges are kept and some discarded
C4_Witness ==
    /\ WeightFilterReturned /\ ~IsAggregated(edges)
    /\ arg.min_edge_weight >= 2
    /\ Len(edges_agg.rows) > 0
    /\ DiscardedPairs(edges, edges_agg) # {}

\* C5: an already aggregated table goes through filter_edges_by_weight with
\* every retained pair keeping its weight and timestamps, and comes back
\* unchanged when min_weight exceeds none of its weights.
C5_AggregatedPassesThrough ==
    (WeightFilterReturned /\ IsAggregated(edges)) =>
        /\ \A i \in DOMAIN edges_agg.rows :
              \E j \in DOMAIN edges.rows : edges_agg.rows[i] = edges.rows[j]
        /\ (\A j \in DOMAIN edges.rows : arg.min_edge_weight <= edges.rows[j].weight)
              => edges_agg = edges

\* ----------------------------------------------------- build_d3_bipartite
\* str.strip() on the strings of the model
Strip(x) ==
    CASE x = " " -> ""
      [] x = " Ann " -> "Ann"
      [] OTHER -> x

\* str.lower() on the strings of the model
Lower(x) ==
    CASE x = "Ann" -> "ann"
      [] x = "Acme" -> "acme"
      [] x = "Ursula" -> "ursula"
      [] x = "None" -> "none"
      [] x = "NaN" -> "nan"
      [] OTHER -> x

\* _clean_str(x, default="Unknown")
_clean_str(x) ==
    LET s_ == IF x = None THEN "" ELSE Strip(Str(x))
    IN  IF s_ = "" \/ Lower(s_) = "nan" THEN "Unknown" ELSE s_

\* pd.notna
NotNa(x) == x # NaN /\ x # None

\* _lbl(r): the first of label, name, mep_name that is present, not NA and
\* not blank, else the id (bip.py:369-373)
LabelCandidates == <<"label", "name", "mep_name">>
_lbl(r) ==
    LET Usable(c) == c \in DOMAIN r /\ NotNa(r[c]) /\ Strip(Str(r[c])) # ""
        usable == SelectSeq(LabelCandidates, Usable)
    IN  IF usable = <<>> THEN Str(r.id) ELSE Strip(Str(r[Head(usable)]))

\* "Ensure label exists" (bip.py:367-377)
WithLabel(ndf) ==
    IF "label" \notin ndf.columns
    THEN [columns |-> ndf.columns \cup {"label"},
          rows |-> [i \in DOMAIN ndf.rows |->
             LET r == ndf.rows[i]
             IN  [c \in (DOMAIN r) \cup {"label"} |->
                     IF c = "label" THEN _lbl(r) ELSE r[c]]]]
    ELSE [ndf EXCEPT !.rows = [i \in DOMAIN ndf.rows |->
             LET r == ndf.rows[i]
                 l == Strip(Str(IF NotNa(r.label) THEN r.label ELSE ""))
             IN  [r EXCEPT !.label = IF l = "" THEN r.id ELSE l]]]

\* one node record (bip.py:381-387); the fields that are float nan are dropped
NodeRecord(r) ==
    LET rec == [c \in (DOMAIN r) \cup {"type"} |->
                  CASE c = "id" -> Str(r.id)
                    [] c = "type" -> IF "type" \in DOMAIN r THEN r.type ELSE "unknown"
                    [] c = "label" -> _clean_str(r.label)
                    [] OTHER -> r[c]]
    IN  [c \in {c \in DOMAIN rec : rec[c] # NaN} |-> rec[c]]

\* used = set(links_df["source"]).union(set(links_df["target"]))
UsedIds(rows) == ColumnValues(rows, "source") \cup ColumnValues(rows, "target")

\* The plausible slip: the isolates are never dropped.
RestrictToUsedNever(ndf, links_rows, keep_isolates) == ndf

\* "Optionally drop isolates" (bip.py:362-365)
RestrictToUsed(ndf, links_rows, keep_isolates) ==
    IF ~keep_isolates THEN RowsIsin(ndf, "id", UsedIds(links_rows)) ELSE ndf

\* The graph build_d3_bipartite returns, or the exception it raises:
\* links_df["timestamps"].iloc[0] on an aggregated table without rows is an
\* IndexError (bip.py:359). The weights and timestamps of an aggregated table
\* are integers and lists in the model, which bip.py:357-360 leave as they are.
build_d3_bipartite(nodes_df, edges_df, ts_col_, keep_isolates) ==
    LET ndf == AstypeStr(nodes_df, "id")
        edf == AstypeStr(AstypeStr(edges_df, "source"), "target")
        already_aggregated == IsAggregated(edf)
        links_df ==
            IF ~already_aggregated
            THEN IF ts_col_ # None /\ ts_col_ \in edf.columns
                 THEN Aggregate(WithCoerced(edf, ts_col_, ts_col_), ts_col_)
                 ELSE Aggregate(edf, None)
            ELSE edf
    IN  IF already_aggregated /\ Len(edf.rows) = 0
        THEN [error |-> "IndexError", nodes |-> <<>>, links |-> <<>>]
        ELSE LET kept == WithLabel(RestrictToUsed(ndf, links_df.rows, keep_isolates))
             IN  [error |-> None,
                  nodes |-> [i \in DOMAIN kept.rows |-> NodeRecord(kept.rows[i])],
                  links |-> [i \in DOMAIN links_df.rows |->
                               [c \in AggColumns |-> links_df.rows[i][c]]]]

\* ------------------------------------------------- build_graph: the tables
\* guess_timestamp_column: the first candidate that is a column, else None
TimestampCandidates ==
    <<"meeting_date", "meeting_datetime", "timestamp", "datetime", "date",
      "created_at", "start_date", "StartDate", "Start date", "MeetingDate",
      "Date", "DATE", "time">>
guess_timestamp_column(frame) ==
    LET Present(c) == c \in frame.columns
        found == SelectSeq(TimestampCandidates, Present)
    IN  IF found = <<>> THEN None ELSE Head(found)

\* drop_duplicates(): the first occurrence of every row, in order
RECURSIVE DropDuplicatesFrom(_, _)
DropDuplicatesFrom(rows, seen) ==
    IF rows = <<>> THEN <<>>
    ELSE IF Head(rows) \in seen THEN DropDuplicatesFrom(Tail(rows), seen)
    ELSE <<Head(rows)>> \o DropDuplicatesFrom(Tail(rows), seen \cup {Head(rows)})
DropDuplicates(rows) == DropDuplicatesFrom(rows, {})

\* pd.concat(frames, ignore_index=True): the union of the columns, the rows
\* in order, a column a frame lacks filled with nan
RECURSIVE ConcatRows(_, _)
ConcatRows(frames, cols) ==
    IF frames = <<>> THEN <<>>
    ELSE [i \in DOMAIN Head(frames).rows |->
            LET r == Head(frames).rows[i]
            IN  [c \in cols |-> IF c \in DOMAIN r THEN r[c] ELSE NaN]]
         \o ConcatRows(Tail(frames), cols)
Concat(frames) ==
    LET cols == UNION {frames[i].columns : i \in DOMAIN frames}
    IN  [columns |-> cols, rows |-> ConcatRows(frames, cols)]

\* _norm on the names of the model: tags and spaces out, upper case
_norm(x) ==
    CASE x = "Ann" -> "ANN"
      [] x = " Ann " -> "ANN"
      [] x = " " -> ""
      [] x = None -> ""
      [] OTHER -> x

\* load_ep_lookup: the EP table of the model holds one member,
\* norm_name ANN. attach_party_country looks the normalised name up; no other
\* name of the model is within NAME_MATCH_CUTOFF of ANN, so the rest get
\* Unknown / Unknown.
attach_party_country(r) ==
    LET hit == _norm(r.mep_name) = "ANN"
    IN  [c \in (DOMAIN r) \cup {"party", "country"} |->
            CASE c = "party" -> IF hit THEN "EPP" ELSE "Unknown"
              [] c = "country" -> IF hit THEN "Germany" ELSE "Unknown"
              [] OTHER -> r[c]]

OrgColumns == {"id", "type", "name", "label", "interests_represented", "register_id"}
MepColumns == {"id", "type", "mep_name", "label", "party", "country"}
PlainColumns == {"id", "type", "name", "label"}

\* org_nodes (server.py:56-66); the master table of the model has the
\* columns id and name only
org_nodes_of(orgs_df) ==
    [columns |-> OrgColumns,
     rows |-> [i \in DOMAIN orgs_df.rows |->
        [id |-> Str(orgs_df.rows[i].id), type |-> "org",
         name |-> orgs_df.rows[i].name, label |-> Str(orgs_df.rows[i].name),
         interests_represented |-> None, register_id |-> None]]]

\* mep_nodes (server.py:85-89); the meetings table of the model has a flat
\* mep_name column
mep_nodes_of(meetings_df) ==
    LET pairs == DropDuplicates([i \in DOMAIN meetings_df.rows |->
                    [id |-> meetings_df.rows[i].mep_id,
                     mep_name |-> meetings_df.rows[i].mep_name]])
    IN  [columns |-> MepColumns,
         rows |-> [i \in DOMAIN pairs |->
            LET r == attach_party_country(
                        [id |-> pairs[i].id, mep_name |-> pairs[i].mep_name,
                         type |-> "mep"])
            IN  [c \in MepColumns |->
                    CASE c = "id" -> Str(r.id)
                      [] c = "label" -> Str(IF NotNa(r.mep_name) THEN r.mep_name ELSE "")
                      [] OTHER -> r[c]]]]

\* commission_nodes (server.py:94-99)
commission_nodes_of(commission_df) ==
    LET hosts == DropDuplicates([i \in DOMAIN commission_df.rows |->
                                    Str(commission_df.rows[i].Host)])
    IN  [columns |-> PlainColumns,
         rows |-> [i \in DOMAIN hosts |->
            [id |-> hosts[i], type |-> "commission_employee",
             name |-> hosts[i], label |-> hosts[i]]]]

\* infer_commission_unmatched_org_nodes (bip.py:122-147); the commission
\* table of the model has no organisation-name column, so name_col is None
infer_commission_unmatched_org_nodes(commission_df, org_nodes_) ==
    LET org_ids_master == {Str(org_nodes_.rows[i].id) : i \in DOMAIN org_nodes_.rows}
        com_org_ids == {Str(commission_df.rows[i].OrgId) : i \in DOMAIN commission_df.rows}
        Missing(x) == x \in (com_org_ids \ org_ids_master)
        missing_ids == SelectSeq(IdOrder, Missing)
    IN  [columns |-> PlainColumns,
         rows |-> [i \in DOMAIN missing_ids |->
            [id |-> missing_ids[i], type |-> "org",
             name |-> missing_ids[i], label |-> missing_ids[i]]]]

\* edges of one table (server.py:112-114, 127-129): the two id columns
\* renamed, and the timestamp column when guess_timestamp_column found one
EdgesOf(frame, source_col, target_col, convert_target) ==
    LET tc == guess_timestamp_column(frame)
    IN  [columns |-> {"source", "target"} \cup (IF tc = None THEN {} ELSE {"timestamp"}),
         rows |-> [i \in DOMAIN frame.rows |->
            LET r == frame.rows[i]
                t == IF convert_target THEN Str(r[target_col]) ELSE r[target_col]
            IN  IF tc = None
                THEN [source |-> r[source_col], target |-> t]
                ELSE [source |-> r[source_col], target |-> t, timestamp |-> r[tc]]]]

Modes == {"mep", "commission", "full"}

\* nodes, edges and ts_col as build_graph has them before the filters
\* (server.py:55-153)
BuildNodesEdges(mode, orgs_df, meetings_df, commission_df) ==
    LET org_nodes == org_nodes_of(orgs_df)
        mep_nodes == mep_nodes_of(meetings_df)
        commission_nodes == commission_nodes_of(commission_df)
        new_org_nodes == infer_commission_unmatched_org_nodes(commission_df, org_nodes)
        edges_mep == EdgesOf(meetings_df, "mep_id", "organization_id", FALSE)
        edges_com == EdgesOf(commission_df, "Host", "OrgId", TRUE)
        TsCol(e) == IF "timestamp" \in e.columns THEN "timestamp" ELSE None
    IN  CASE mode = "mep" ->
               [nodes |-> Concat(<<org_nodes, mep_nodes>>),
                edges |-> edges_mep, ts_col |-> TsCol(edges_mep)]
          [] mode = "commission" ->
               [nodes |-> Concat(<<org_nodes, new_org_nodes, commission_nodes>>),
                edges |-> edges_com, ts_col |-> TsCol(edges_com)]
          [] OTHER ->
               [nodes |-> Concat(<<org_nodes, new_org_nodes, mep_nodes, commission_nodes>>),
                edges |-> Concat(<<edges_mep, edges_com>>),
                ts_col |-> TsCol(Concat(<<edges_mep, edges_com>>))]

\* ------------------------------------------ build_graph: placeholder repair
\* The plausible slip: only the sources are looked up.
MissingSources(g) ==
    LET node_ids == {g.nodes[i].id : i \in DOMAIN g.nodes}
    IN  {g.links[i].source : i \in DOMAIN g.links} \ node_ids

\* the link endpoints that are no node id (server.py:185-191)
MissingEndpoints(g) ==
    LET node_ids == {g.nodes[i].id : i \in DOMAIN g.nodes}
    IN  ({g.links[i].source : i \in DOMAIN g.links} \cup
         {g.links[i].target : i \in DOMAIN g.links}) \ node_ids

Placeholder(org_id) ==
    [id |-> org_id, type |-> "org", label |-> org_id, name |-> org_id]

\* the orders in which a Python set of ids can be iterated
Orderings(ids) ==
    {q \in [1..Cardinality(ids) -> ids] : \A i, j \in DOMAIN q : i # j => q[i] # q[j]}

\* ------------------------------------------------------------------ Spec

\* the meetings table, with and without a timestamp column; one member, who
\* is recorded with and without a name
MeetingFrames ==
    {[columns |-> {"mep_id", "mep_name", "organization_id", "meeting_date"}, rows |-> r] :
        r \in UNION {[1..n -> [mep_id : {"int:1"}, mep_name : {"Ann", ""},
                               organization_id : {"int:1", "int:2"},
                               meeting_date : {"2024-03-01"}]] :
                        n \in 0..MaxMeetings}}
    \cup
    {[columns |-> {"mep_id", "mep_name", "organization_id"}, rows |-> r] :
        r \in UNION {[1..n -> [mep_id : {"int:1"}, mep_name : {"Ann", ""},
                               organization_id : {"int:1", "int:2"}]] :
                        n \in 0..MaxMeetings}}

\* the identifiers of the tables in ascending order
IdRank(x) == CHOOSE i \in 1..3 : x = <<"int:1", "int:2", "int:3">>[i]
Ascending(rows, col) ==
    \A i \in DOMAIN rows, j \in DOMAIN rows : i < j => IdRank(rows[i][col]) <= IdRank(rows[j][col])

\* the commission table, its rows in ascending OrgId order
CommissionFrames ==
    {[columns |-> {"Host", "OrgId", "Date"}, rows |-> r] :
        r \in {q \in UNION {[1..n -> [Host : {"Ursula"}, OrgId : {"int:1", "int:3"},
                                      Date : {"2024-03-02 10:30"}]] :
                               n \in 0..MaxCommission} : Ascending(q, "OrgId")}}

\* the organisations master table, its rows in ascending id order (an id may
\* repeat)
OrgFrames ==
    {[columns |-> {"id", "name"}, rows |-> r] :
        r \in {q \in UNION {[1..n -> [id : {"int:1", "int:2"}, name : {"Acme"}]] :
                               n \in 0..MaxOrgs} : Ascending(q, "id")}}

Init ==
    /\ pc = "load"
    /\ meetings \in MeetingFrames
    /\ commission \in CommissionFrames
    /\ orgs \in OrgFrames
    /\ nodes = EmptyFrame /\ edges = EmptyFrame /\ ts_col = None
    /\ edges_agg = EmptyFrame /\ graph = None
    /\ arg = NoArg
    /\ inp = EmptyFrame /\ out = EmptyFrame
    /\ df = EmptyFrame /\ changed = FALSE /\ it = 0

Harness == <<inp, out, df, changed, it>>

\* server.py:55-153: the node and edge frames of the mode
BuildTables ==
    /\ pc = "load"
    /\ \E mode \in Modes :
        LET b == BuildNodesEdges(mode, orgs, meetings, commission)
        IN  /\ nodes' = b.nodes
            /\ edges' = b.edges
            /\ ts_col' = b.ts_col
            /\ arg' = [fn |-> "build_graph", mode |-> mode]
    /\ pc' = "filter"
    /\ UNCHANGED <<meetings, commission, orgs, edges_agg, graph, Harness>>

\* server.py:156-165: the degree filter, then the k-core when k > 1; inp
\* keeps the rows the degree filter was given
StructuralFilter ==
    /\ pc = "filter"
    /\ \E om \in 1..MaxArg, am \in 1..MaxArg, k \in 0..MaxArg :
        LET filtered == filter_bipartite_by_degree(edges, om, am)
        IN  edges' = IF k > 1 THEN bipartite_k_core_prune(filtered, k) ELSE filtered
    /\ inp' = edges
    /\ pc' = "weight"
    /\ UNCHANGED <<meetings, commission, orgs, nodes, ts_col, edges_agg, graph,
                   arg, out, df, changed, it>>

\* The plausible slip: the handler written for the parse errors only
\* (except ValueError), so that any other exception leaves get_graph and the
\* transport answers 500 by itself, without the payload.
ErrorResponseValueErrorOnly(e) ==
    IF e = "ValueError"
    THEN [error |-> e, nodes |-> <<>>, links |-> <<>>, status |-> 500]
    ELSE [error |-> None, nodes |-> None, links |-> None, status |-> 500]

\* get_graph's except Exception (server.py:240-245): the payload and HTTP 500
ErrorResponse(e) ==
    [error |-> e, nodes |-> <<>>, links |-> <<>>, status |-> 500]

\* the query parameters get_graph passes to int() (server.py:223-226), and
\* texts int() raises ValueError on
IntParameters ==
    {"org_min_degree", "actor_min_degree", "bipartite_k_core", "min_edge_weight"}
BadIntTexts == {"abc", "1.5"}

\* server.py:218-226, 240-245: int() of a parameter raises and the handler
\* answers before build_graph is called
BadParameter ==
    /\ pc = "load"
    /\ \E p \in IntParameters, v \in BadIntTexts :
        arg' = [fn |-> "get_graph", parameter |-> p, text |-> v]
    /\ graph' = ErrorResponse("ValueError")
    /\ pc' = "error"
    /\ UNCHANGED <<meetings, commission, orgs, nodes, edges, ts_col, edges_agg,
                   Harness>>

\* server.py:176-182: build_d3_bipartite(nodes, edges_agg, ts_col=None,
\* keep_isolates); an exception leaves build_graph and is answered by
\* get_graph's handler (server.py:240-245)
BuildD3 ==
    /\ pc = "d3"
    /\ \E keep_isolates \in BOOLEAN :
        /\ LET g == build_d3_bipartite(nodes, edges_agg, None, keep_isolates)
           IN  graph' = IF g.error # None THEN ErrorResponse(g.error) ELSE g
        /\ arg' = [fn |-> "build_d3_bipartite",
                   min_edge_weight |-> arg.min_edge_weight,
                   keep_isolates |-> keep_isolates]
    /\ pc' = IF graph'.error # None THEN "error" ELSE "repair"
    /\ UNCHANGED <<meetings, commission, orgs, nodes, edges, ts_col, edges_agg,
                   Harness>>

\* server.py:184-202: a placeholder node for every link endpoint without a
\* node, appended in the iteration order of the set
Repair ==
    /\ pc = "repair"
    /\ \E order \in Orderings(MissingEndpoints(graph)) :
        graph' = [graph EXCEPT !.nodes =
                    @ \o [i \in DOMAIN order |-> Placeholder(order[i])]]
    /\ pc' = "done"
    /\ UNCHANGED <<meetings, commission, orgs, nodes, edges, ts_col, edges_agg,
                   arg, Harness>>

Next ==
    \/ BadParameter
    \/ BuildTables \/ StructuralFilter \/ WeightFilter \/ BuildD3 \/ Repair

Spec == Init /\ [][Next]_vars

\* ------------------------------------------------------- claims on Spec
\* build_d3_bipartite returned a graph / build_graph returned it
GraphBuilt == pc \in {"repair", "done"}
GraphReturned == pc = "done"

\* the parsed timestamps of the rows of pair (s, t) among the rows that
\* survived the degree filter and the k-core, in row order
SurvivingTimestamps(s, t) ==
    IF ts_col = None \/ ts_col \notin edges.columns THEN <<>>
    ELSE LET g == GroupRows(AstypeStr(AstypeStr(edges, "source"), "target").rows, s, t)
         IN  NonEmpty([i \in DOMAIN g |-> CoerceTimestamp(g[i][ts_col])])

\* C6: the timestamps of every link of the returned graph are the parsed
\* timestamps of the surviving records of its pair, for every setting of the
\* parameters, min_edge_weight = 1 included.
C6_LinkTimestamps ==
    GraphReturned =>
        \A i \in DOMAIN graph.links :
            graph.links[i].timestamps =
                SurvivingTimestamps(graph.links[i].source, graph.links[i].target)

\* C7: the links of the graph have pairwise different (source, target) pairs,
\* and the weight of each is the number of rows of its pair among the rows
\* that survived the degree filter and the k-core.
C7_OneLinkPerPair ==
    GraphBuilt =>
        /\ \A i \in DOMAIN graph.links, j \in DOMAIN graph.links :
              i # j => <<graph.links[i].source, graph.links[i].target>>
                        # <<graph.links[j].source, graph.links[j].target>>
        /\ \A i \in DOMAIN graph.links :
              graph.links[i].weight =
                  PairCount(edges.rows, graph.links[i].source, graph.links[i].target)

\* two links, one of them collapsing two records
C7_Witness ==
    /\ GraphReturned
    /\ Len(graph.links) >= 2
    /\ \E i \in DOMAIN graph.links : graph.links[i].weight >= 2

\* C8: with keep_isolates = false every node of the graph is the source or the
\* target of a link, as build_d3_bipartite returns it and after the repair.
C8_NoIsolates ==
    (GraphBuilt /\ ~arg.keep_isolates) =>
        \A i \in DOMAIN graph.nodes :
            \E j \in DOMAIN graph.links :
                graph.nodes[i].id \in {graph.links[j].source, graph.links[j].target}

\* nodes of the table were dropped as isolates and others kept
C8_Witness ==
    /\ GraphReturned /\ ~arg.keep_isolates
    /\ Len(graph.nodes) > 0
    /\ \E i \in DOMAIN nodes.rows :
          \A j \in DOMAIN graph.nodes : graph.nodes[j].id # Str(nodes.rows[i].id)

NodeIds(g) == {g.nodes[i].id : i \in DOMAIN g.nodes}

\* C9: the source and the target of every link of the graph build_graph
\* returns are ids of its nodes.
C9_EndpointsAreNodes ==
    GraphReturned =>
        \A i \in DOMAIN graph.links :
            graph.links[i].source \in NodeIds(graph) /\ graph.links[i].target \in NodeIds(graph)

\* a link ends at an organisation the node table does not have: its node is a
\* placeholder
C9_Witness ==
    /\ GraphReturned
    /\ \E i \in DOMAIN graph.links :
          \A j \in DOMAIN nodes.rows : Str(nodes.rows[j].id) # graph.links[i].target

\* C10: no two nodes of the returned graph have the same id.
C10_UniqueNodeIds ==
    GraphReturned =>
        \A i \in DOMAIN graph.nodes, j \in DOMAIN graph.nodes :
            i # j => graph.nodes[i].id # graph.nodes[j].id

\* get_graph answered with the handler's payload
ErrorAnswered == pc = "error"

\* C12: a failure while a parameter is parsed or the graph is built is
\* answered by get_graph with an error message, no nodes and no links (HTTP
\* 500); the call of build_d3_bipartite that raises ends there, a call that
\* does not raise goes on to the repair, and no graph that is returned
\* carries an error.
C12_FailuresAnswered ==
    /\ ErrorAnswered =>
          /\ graph.status = 500
          /\ graph.error \in {"ValueError", "IndexError"}
          /\ graph.nodes = <<>> /\ graph.links = <<>>
          /\ arg.fn \in {"get_graph", "build_d3_bipartite"}
    /\ (arg.fn = "build_d3_bipartite" /\ pc \in {"error", "repair"}) =>
          LET g == build_d3_bipartite(nodes, edges_agg, None, arg.keep_isolates)
          IN  /\ ErrorAnswered <=> g.error # None
              /\ ErrorAnswered => graph.error = g.error
    /\ arg.fn = "get_graph" => ErrorAnswered
    /\ GraphBuilt => graph.error = None

\* building the graph failed after the tables and the filters had run
C12_Witness ==
    /\ ErrorAnswered /\ arg.fn = "build_d3_bipartite"
    /\ graph.error = "IndexError"
    /\ Len(inp.rows) > 0

\* build_d3_bipartite was called on the table of the weight filter
D3Called == arg.fn = "build_d3_bipartite" /\ pc \in {"error", "repair", "done"}

\* C18: with min_edge_weight >= 2 and no pair reaching it (the surviving rows
\* may be none at all), filter_edges_by_weight followed by
\* build_d3_bipartite returns a graph without links, and without nodes when
\* keep_isolates is false, and does not end in an error.
C18_EmptyGraphWhenNothingHeavy ==
    (D3Called /\ arg.min_edge_weight >= 2 /\ Len(edges_agg.rows) = 0) =>
        /\ pc # "error"
        /\ graph.error = None
        /\ graph.links = <<>>
        /\ ~arg.keep_isolates => graph.nodes = <<>>

\* the pairs of a frame, ids as printed
PairsOf(frame) ==
    {<<Str(frame.rows[i].source), Str(frame.rows[i].target)>> : i \in DOMAIN frame.rows}

\* the degree filter and the k-core have just run: edges holds the rows
\* they left (and keeps them to the end), inp the raw rows
StructurallyFiltered == pc = "weight"

\* C19: after the degree filter and the k-core every pair of the raw rows has
\* all of its rows or none of them, and the weight of every link of the graph
\* is the number of raw rows of its pair.
C19_PairsWholeOrGone ==
    /\ StructurallyFiltered =>
          \A p \in PairsOf(inp) :
              PairCount(edges.rows, p[1], p[2]) \in {0, PairCount(inp.rows, p[1], p[2])}
    /\ StructurallyFiltered => PairsOf(edges) \subseteq PairsOf(inp)
    /\ GraphReturned =>
          \A i \in DOMAIN graph.links :
              graph.links[i].weight =
                  PairCount(inp.rows, graph.links[i].source, graph.links[i].target)

\* the filters removed a pair, and a link that is left collapses two raw rows
C19_Witness ==
    /\ GraphReturned
    /\ PairsOf(edges) # PairsOf(inp)
    /\ \E i \in DOMAIN graph.links : graph.links[i].weight >= 2

\* ------------------------------------------------------------- SpecLabel
\* node tables given to build_d3_bipartite directly: with and without a label
\* column, a name column and a mep_name column, the values a text between
\* blanks, a blank, the text "nan" or missing
LabelValues == {" Ann ", " ", "nan", NaN}
LabelColumnSets ==
    {{"id"} \cup cs : cs \in SUBSET {"label", "name", "mep_name"}}
NodeFrames ==
    {[columns |-> cols, rows |-> r] :
        cols \in LabelColumnSets,
        r \in UNION {[1..n -> [id : {"int:1"}, label : LabelValues,
                               name : LabelValues, mep_name : LabelValues]] :
                        n \in 1..MaxNodes}}

\* the frame with its rows cut down to its columns
Projected(frame) ==
    [frame EXCEPT !.rows =
        [i \in DOMAIN frame.rows |-> [c \in frame.columns |-> frame.rows[i][c]]]]

\* the edge tables of the calls: raw rows without any row, and an aggregated
\* table with one row
LabelEdgeFrames ==
    {[columns |-> {"source", "target"}, rows |-> <<>>],
     [columns |-> AggColumns,
      rows |-> <<[source |-> "1", target |-> "2", weight |-> 1, timestamps |-> <<>>]>>]}

InitLabel ==
    /\ pc = "d3"
    /\ meetings = EmptyFrame /\ commission = EmptyFrame /\ orgs = EmptyFrame
    /\ nodes \in {Projected(f) : f \in NodeFrames}
    /\ edges = EmptyFrame /\ ts_col = None
    /\ edges_agg \in LabelEdgeFrames
    /\ graph = None
    /\ arg = [fn |-> "filter_edges_by_weight", min_edge_weight |-> 1]
    /\ inp = EmptyFrame /\ out = EmptyFrame
    /\ df = EmptyFrame /\ changed = FALSE /\ it = 0

SpecLabel == InitLabel /\ [][BuildD3]_vars

\* ------------------------------------------------- claims on SpecLabel
\* the value of field c of row r is there, and not blank
HasText(r, c) ==
    c \in DOMAIN r /\ r[c] # NaN /\ r[c] # None /\ Strip(Str(r[c])) # ""

\* the label the priority order gives row r: the first of label, name and
\* mep_name that has text, without the surrounding blanks, else the id
PriorityLabel(r) ==
    IF HasText(r, "label") THEN Strip(Str(r.label))
    ELSE IF HasText(r, "name") THEN Strip(Str(r.name))
    ELSE IF HasText(r, "mep_name") THEN Strip(Str(r.mep_name))
    ELSE Str(r.id)

\* C17: the label of every node build_d3_bipartite emits is the first of the
\* node's label, name and mep_name fields that is neither empty nor blank,
\* and the node's id when none of them is present with text.
C17_LabelByPriority ==
    (pc = "repair" /\ arg.fn = "build_d3_bipartite") =>
        LET kept == RestrictToUsed(AstypeStr(nodes, "id"), graph.links, arg.keep_isolates).rows
        IN  /\ Len(graph.nodes) = Len(kept)
            /\ \A i \in DOMAIN kept : graph.nodes[i].label = PriorityLabel(kept[i])

====
